---- MODULE Spec2Model ----
(***************************************************************************)
(* A model of the CHIP-8 interpreter core of src/src/lib.rs: the State     *)
(* struct (memory, pc, index register, stack, registers), the decoder      *)
(* Instruction::decode, the executor State::execute, the loader            *)
(* State::initialize, the DisplayBuffer framebuffer and the mock timer,    *)
(* beeper and keypad the host plugs in.                                    *)
(***************************************************************************)
EXTENDS Integers, Sequences, FiniteSets, TLC

(***************************************************************************)
(* Program constants                                                       *)
(***************************************************************************)
MEM_SIZE == 4096
FONT_START == 80
FONT_CHARACTER_BYTES == 5
PROGRAM_START == 512
DISPLAY_WIDTH == 64
DISPLAY_HEIGHT == 32

DEFAULT_FONT ==
  << 240, 144, 144, 144, 240,   32,  96,  32,  32, 112,
     240,  16, 240, 128, 240,  240,  16, 240,  16, 240,
     144, 144, 240,  16,  16,  240, 128, 240,  16, 240,
     240, 128, 240, 144, 240,  240,  16,  32,  64,  64,
     240, 144, 240, 144, 240,  240, 144, 240,  16, 240,
     240, 144, 240, 144, 144,  224, 144, 224, 144, 224,
     240, 128, 128, 128, 240,  224, 144, 144, 144, 224,
     240, 128, 240, 128, 240,  240, 128, 240, 128, 128 >>

(***************************************************************************)
(* Bounds of the model                                                     *)
(***************************************************************************)
\* execute() calls the host makes between two calls of initialize()
MaxSteps == 6
\* initialize() calls the host makes on one State, where it makes several
MaxInits == 2

(***************************************************************************)
(* Fixed-width integer arithmetic (u8, u16) as the code computes it        *)
(***************************************************************************)
\* The bitwise operators work on the values of their operands: each operand
\* is evaluated once (the one-element sets below), then combined bit by bit.
RECURSIVE AndBits(_, _)
AndBits(a, b) ==
  IF a = 0 \/ b = 0 THEN 0
  ELSE (a % 2) * (b % 2) + 2 * AndBits(a \div 2, b \div 2)

BitAnd(a, b) == CHOOSE r \in {AndBits(va, vb) : va \in {a}, vb \in {b}} : TRUE

RECURSIVE OrBits(_, _)
OrBits(a, b) ==
  IF a = 0 THEN b
  ELSE IF b = 0 THEN a
  ELSE (IF a % 2 = 1 \/ b % 2 = 1 THEN 1 ELSE 0) + 2 * OrBits(a \div 2, b \div 2)

BitOr(a, b) == CHOOSE r \in {OrBits(va, vb) : va \in {a}, vb \in {b}} : TRUE

RECURSIVE XorBits(_, _)
XorBits(a, b) ==
  IF a = 0 THEN b
  ELSE IF b = 0 THEN a
  ELSE ((a + b) % 2) + 2 * XorBits(a \div 2, b \div 2)

BitXor(a, b) == CHOOSE r \in {XorBits(va, vb) : va \in {a}, vb \in {b}} : TRUE

RECURSIVE Pow2(_)
Pow2(k) == IF k = 0 THEN 1 ELSE 2 * Pow2(k - 1)

\* `v as u8`: truncation to the low 8 bits
AsU8(v) == v % 256
\* `a << k` on a u16
Shl16(a, k) == (a * Pow2(k)) % 65536
\* `a >> k`
Shr(a, k) == a \div Pow2(k)

(***************************************************************************)
(* Instruction::decode                                                     *)
(***************************************************************************)
code_to_nibble_array(op_code) ==
  << Shr(BitAnd(op_code, 61440), 12),
     Shr(BitAnd(op_code, 3840), 8),
     Shr(BitAnd(op_code, 240), 4),
     BitAnd(op_code, 15) >>

RECURSIVE CombineFrom(_, _, _)
CombineFrom(nibbles, i, combined) ==
  IF i > Len(nibbles) THEN combined
  ELSE CombineFrom(nibbles, i + 1,
                   BitOr(combined, Shl16(nibbles[i], (Len(nibbles) - i) * 4)))

\* A combine_nibbles that puts the first nibble lowest
combine_nibbles_LowFirst(nibbles) ==
  CombineFrom([k \in 1 .. Len(nibbles) |-> nibbles[Len(nibbles) + 1 - k]], 1, 0)

combine_nibbles(nibbles) == CombineFrom(nibbles, 1, 0)

\* A tagged instruction value; the fields a tag does not carry are 0.
Instr(op, x, y, n, nn, nnn) ==
  [op |-> op, x |-> x, y |-> y, n |-> n, nn |-> nn, nnn |-> nnn]

Invalid == Instr("Invalid", 0, 0, 0, 0, 0)

\* lines 580-768: the match on the nibbles
decode_match(nibbles) ==
  LET n0 == nibbles[1]
      n1 == nibbles[2]
      n2 == nibbles[3]
      n3 == nibbles[4]
      nnn == combine_nibbles(SubSeq(nibbles, 2, 4))
      nn == AsU8(combine_nibbles(SubSeq(nibbles, 3, 4)))
      x == n1
      y == n2
  IN  IF n0 = 0 THEN
        IF n1 = 0 /\ n2 = 14 /\ n3 = 0 THEN Instr("Cls", 0, 0, 0, 0, 0)
        ELSE IF n1 = 0 /\ n2 = 14 /\ n3 = 14 THEN Instr("Rts", 0, 0, 0, 0, 0)
        ELSE Invalid
      ELSE IF n0 = 1 THEN Instr("Jump", 0, 0, 0, 0, nnn)
      ELSE IF n0 = 2 THEN Instr("Call", 0, 0, 0, 0, nnn)
      ELSE IF n0 = 3 THEN Instr("SkipEqConst", x, 0, 0, nn, 0)
      ELSE IF n0 = 4 THEN Instr("SkipNeqConst", x, 0, 0, nn, 0)
      ELSE IF n0 = 5 THEN
        IF n3 # 0 THEN Invalid ELSE Instr("SkipEq", x, y, 0, 0, 0)
      ELSE IF n0 = 6 THEN Instr("MovConst", x, 0, 0, nn, 0)
      ELSE IF n0 = 7 THEN Instr("AddConst", x, 0, 0, nn, 0)
      ELSE IF n0 = 8 /\ n3 = 0 THEN Instr("Mov", x, y, 0, 0, 0)
      ELSE IF n0 = 8 /\ n3 = 1 THEN Instr("Or", x, y, 0, 0, 0)
      ELSE IF n0 = 8 /\ n3 = 2 THEN Instr("And", x, y, 0, 0, 0)
      ELSE IF n0 = 8 /\ n3 = 3 THEN Instr("Xor", x, y, 0, 0, 0)
      ELSE IF n0 = 8 /\ n3 = 4 THEN Instr("Add", x, y, 0, 0, 0)
      ELSE IF n0 = 8 /\ n3 = 5 THEN Instr("SubXY", x, y, 0, 0, 0)
      ELSE IF n0 = 8 /\ n3 = 6 THEN Instr("RightShift", x, y, 0, 0, 0)
      ELSE IF n0 = 8 /\ n3 = 7 THEN Instr("SubYX", x, y, 0, 0, 0)
      ELSE IF n0 = 8 /\ n3 = 14 THEN Instr("LeftShift", x, y, 0, 0, 0)
      ELSE IF n0 = 9 /\ n3 = 0 THEN Instr("SkipNeq", x, y, 0, 0, 0)
      ELSE IF n0 = 10 THEN Instr("MovI", 0, 0, 0, 0, nnn)
      ELSE IF n0 = 11 THEN Instr("JumpIndexed", 0, 0, 0, 0, nnn)
      ELSE IF n0 = 12 THEN Instr("Rand", x, 0, 0, nn, 0)
      ELSE IF n0 = 13 THEN Instr("Draw", x, y, n3, 0, 0)
      ELSE IF n0 = 14 /\ n2 = 9 /\ n3 = 14 THEN Instr("SkipKeyEq", x, 0, 0, 0, 0)
      ELSE IF n0 = 14 /\ n2 = 10 /\ n3 = 1 THEN Instr("SkipKeyNeq", x, 0, 0, 0, 0)
      ELSE IF n0 = 15 /\ n2 = 0 /\ n3 = 7 THEN Instr("GetDelayTimer", x, 0, 0, 0, 0)
      ELSE IF n0 = 15 /\ n2 = 0 /\ n3 = 10 THEN Instr("WaitKey", x, 0, 0, 0, 0)
      ELSE IF n0 = 15 /\ n2 = 1 /\ n3 = 5 THEN Instr("SetDelayTimer", x, 0, 0, 0, 0)
      ELSE IF n0 = 15 /\ n2 = 1 /\ n3 = 8 THEN Instr("SetSoundTimer", x, 0, 0, 0, 0)
      ELSE IF n0 = 15 /\ n2 = 1 /\ n3 = 14 THEN Instr("AddI", x, 0, 0, 0, 0)
      ELSE IF n0 = 15 /\ n2 = 2 /\ n3 = 9 THEN Instr("SetFontI", x, 0, 0, 0, 0)
      ELSE IF n0 = 15 /\ n2 = 3 /\ n3 = 3 THEN Instr("BCD", x, 0, 0, 0, 0)
      ELSE IF n0 = 15 /\ n2 = 5 /\ n3 = 5 THEN Instr("RegDump", x, 0, 0, 0, 0)
      ELSE IF n0 = 15 /\ n2 = 6 /\ n3 = 5 THEN Instr("RegLoad", x, 0, 0, 0, 0)
      ELSE Invalid

\* line 579: `let nibbles = Self::code_to_nibble_array(op_code)`, then the match
decode(op_code) ==
  CHOOSE r \in {decode_match(nibbles) :
                  nibbles \in {code_to_nibble_array(op_code)}} : TRUE

(***************************************************************************)
(* DisplayBuffer: the 64x32 framebuffer, a Vec<bool> of 64 * 32 cells      *)
(* indexed from 0.  The Vec is kept as the set of the indexes of its true  *)
(* cells (its lit pixels); every other index of DisplayCells holds false.  *)
(***************************************************************************)
DisplayCells == 0 .. (DISPLAY_WIDTH * DISPLAY_HEIGHT - 1)

DisplayBuffer_new == {}

DisplayBuffer_clear(d) == {}

\* `display[index]`
PixelAt(d, index) == index \in d

\* `display[index] = v`
SetPixel(d, index, v) == IF v THEN d \cup {index} ELSE d \ {index}

u8_to_bool_array(byte) == [i \in 0 .. 7 |-> BitAnd(byte, Shr(128, i)) # 0]

\* line 258: the sprite row `line` lies below the bottom edge
RowClipped(actual_y, line) == actual_y + line >= DISPLAY_HEIGHT

\* A modify that does not clip at the right edge
ColumnDrawn_NoClip(actual_x, i) == TRUE

\* line 265: the sprite column i lies inside the right edge
ColumnDrawn(actual_x, i) == actual_x + i < DISPLAY_WIDTH

\* A modify that ORs the sprite bit into the pixel
FlipPixel_Or(old, b) == old \/ b

\* line 270: `display[index] != *b`, the logical XOR
FlipPixel(old, b) == old # b

\* line 273: the sprite bit met a lit pixel
Collides(old, b) == b /\ old

CellIndex(actual_x, i, line, actual_y) ==
  actual_x + i + DISPLAY_WIDTH * (line + actual_y)

\* The inner loop of modify over the 8 bits of one sprite row.  acc carries
\* the framebuffer, the collision flag, the indexes used so far and whether
\* an index fell outside the Vec (a bounds-check panic).
RECURSIVE ModifyColumns(_, _, _, _, _, _)
ModifyColumns(acc, line_bools, actual_x, actual_y, line, i) ==
  IF i > 7 \/ acc.oob THEN acc
  ELSE IF ~ColumnDrawn(actual_x, i)
       THEN ModifyColumns(acc, line_bools, actual_x, actual_y, line, i + 1)
  ELSE LET index == CellIndex(actual_x, i, line, actual_y)
           b == line_bools[i]
       IN  IF index \notin DisplayCells
           THEN [acc EXCEPT !.oob = TRUE, !.touched = @ \cup {index}]
           ELSE LET old == PixelAt(acc.display, index)
                IN  ModifyColumns(
                      [acc EXCEPT !.display = SetPixel(@, index, FlipPixel(old, b)),
                                  !.result_flag = @ \/ Collides(old, b),
                                  !.touched = @ \cup {index}],
                      line_bools, actual_x, actual_y, line, i + 1)

\* The outer loop of modify over the n sprite rows.
RECURSIVE ModifyLines(_, _, _, _, _, _)
ModifyLines(acc, sprite, n, actual_x, actual_y, line) ==
  IF line >= n \/ acc.oob THEN acc
  ELSE IF RowClipped(actual_y, line) THEN acc
  ELSE ModifyLines(
         ModifyColumns(acc, u8_to_bool_array(sprite[line + 1]),
                       actual_x, actual_y, line, 0),
         sprite, n, actual_x, actual_y, line + 1)

\* A modify that does not wrap the start coordinates
modify_NoStartWrap(d, sprite, n, x, y) ==
  ModifyLines([display |-> d, result_flag |-> FALSE,
               touched |-> {}, oob |-> FALSE],
              sprite, n, x, y, 0)

\* DisplayBuffer::modify(sprite, n, x, y): the new framebuffer, the returned
\* flag, the set of Vec indexes it used, and whether it panicked.
modify(d, sprite, n, x, y) ==
  LET actual_x == x % AsU8(DISPLAY_WIDTH)
      actual_y == y % AsU8(DISPLAY_HEIGHT)
  IN  ModifyLines([display |-> d, result_flag |-> FALSE,
                   touched |-> {}, oob |-> FALSE],
                  sprite, n, actual_x, actual_y, 0)

(***************************************************************************)
(* State: the machine and the capabilities it holds                        *)
(***************************************************************************)
VARIABLES
  memory,            \* State.memory: the non-zero bytes of the Vec<u8>
  display,           \* DisplayBuffer.display behind State.display: its lit cells
  display_poisoned,  \* the display Mutex was poisoned by a panic under its lock
  delay_timer,       \* DebugTimer.value behind State.delay_timer
  sound_timer,       \* DebugBeeper.value behind State.sound_timer
  keypad,            \* DebugKeypad.currently_pressed (NoKey for None)
  pc,                \* State.pc
  index_reg,         \* State.index_reg
  stack,             \* State.stack
  gp_registers,      \* State.gp_registers
  steps,             \* execute() calls since the last initialize(), a
                     \* WAIT_KEY poll that found no key not counted
  inits,             \* initialize() calls so far
  dumped,            \* the last REG_DUMP whose bytes are still in memory
  counted,           \* the CALLs and RTSs executed since the last initialize()
  delay_set,         \* the value the last SET_DELAY_TIMER gave the delay timer,
                     \* live until the host ticks the timer
  locks,             \* the owner of each capability Mutex
  call,              \* the execute() call in flight, where its steps interleave
                     \* with a host thread
  prev,              \* the record of the call before the last one
  last               \* the record of the last call on the State

vars == << memory, display, display_poisoned, delay_timer, sound_timer, keypad,
           pc, index_reg, stack, gp_registers, steps, inits, dumped, counted,
           delay_set, locks, call, prev, last >>

Addresses == 0 .. (MEM_SIZE - 1)
Registers == 0 .. 15

\* Option<u8>::None of Keypad::get_pressed_key
NoKey == -1

\* State.memory is a Vec<u8> of MEM_SIZE bytes, all 0 at first.  It is kept
\* as the function from the addresses of its non-zero bytes to those bytes;
\* every other address of Addresses holds 0.
ZeroMemory == [a \in {} |-> 0]

\* `memory[a]` for an address in bounds
MemRead(mem, a) == IF a \in DOMAIN mem THEN mem[a] ELSE 0

\* `memory[a] = v` for an address in bounds
MemWrite(mem, a, v) ==
  IF v = 0 THEN [b \in DOMAIN mem \ {a} |-> mem[b]]
  ELSE [b \in DOMAIN mem \cup {a} |-> IF b = a THEN v ELSE mem[b]]

\* The record of one call: the operation and its decoded fields, the address
\* the instruction was fetched at, the registers, I, the stack and the lit
\* cells before the call, the keypad sample (NoKey when none was pressed or
\* taken), the display indexes a DRAW used, and the panic the call ended in
\* ("none" when it returned).
CallRecord(instr, at, V, I, stk, lit, key, touched, panic) ==
  [op |-> instr.op, x |-> instr.x, y |-> instr.y, n |-> instr.n,
   nn |-> instr.nn, nnn |-> instr.nnn, at |-> at, V |-> V, I |-> I,
   stack |-> stk, lit |-> lit, key |-> key, touched |-> touched,
   panic |-> panic]

NoCall ==
  CallRecord(Instr("New", 0, 0, 0, 0, 0), 0, [r \in Registers |-> 0], 0,
             << >>, {}, NoKey, {}, "none")

\* No REG_DUMP whose bytes are still in memory
NoDump == [live |-> FALSE, x |-> 0, I |-> 0, V |-> [r \in Registers |-> 0]]

\* No CALL and no RTS executed
NoneCounted == [calls |-> 0, rts |-> 0]

\* No SET_DELAY_TIMER whose value is still in the delay timer
NoDelaySet == [live |-> FALSE, value |-> 0]

\* The four Arc<Mutex<..>> capabilities of State
Capabilities == {"display", "delay_timer", "sound_timer", "keypad"}

\* No capability Mutex is held
AllFree == [c \in Capabilities |-> "free"]

\* No execute() call is in flight
Idle ==
  [phase |-> "idle", in |-> Invalid, cap |-> "none", at |-> 0, samples |-> 0,
   key |-> NoKey, pc |-> 0, V |-> [r \in Registers |-> 0], lit |-> {},
   touched |-> {}, panic |-> "none"]

\* State::new with a fresh DisplayBuffer, DebugTimer, DebugBeeper, DebugKeypad
Init ==
  /\ memory = ZeroMemory
  /\ pc = 0
  /\ index_reg = 0
  /\ stack = << >>
  /\ gp_registers = [r \in Registers |-> 0]
  /\ display = DisplayBuffer_new
  /\ display_poisoned = FALSE
  /\ delay_timer = 0
  /\ sound_timer = 0
  /\ keypad = NoKey
  /\ steps = 0
  /\ inits = 0
  /\ dumped = NoDump
  /\ counted = NoneCounted
  /\ delay_set = NoDelaySet
  /\ locks = AllFree
  /\ call = Idle
  /\ prev = NoCall
  /\ last = NoCall

(***************************************************************************)
(* State::initialize                                                       *)
(***************************************************************************)
\* `for i in 0..bytes.len() { memory[start + i] = bytes[i] }`: the bytes that
\* fit are written; an index past the end of memory panics.
CopyInto(mem, start, bytes) ==
  LET written == (start .. (start + Len(bytes) - 1)) \cap Addresses
      nonzero == {a \in written : bytes[a - start + 1] # 0}
  IN  [a \in (DOMAIN mem \ written) \cup nonzero |->
         IF a \in written THEN bytes[a - start + 1] ELSE mem[a]]

CopyPanics(start, bytes) == start + Len(bytes) > MEM_SIZE

InitRecord(panic) ==
  CallRecord(Instr("Initialize", 0, 0, 0, 0, 0), pc, gp_registers, index_reg,
             stack, display, NoKey, {}, panic)

Initialize(program, font) ==
  /\ inits' = inits + 1
  /\ steps' = 0
  /\ dumped' = NoDump
  /\ counted' = NoneCounted
  /\ prev' = last
  /\ IF CopyPanics(PROGRAM_START, program)
     THEN /\ memory' = CopyInto(memory, PROGRAM_START, program)
          /\ pc' = pc
          /\ last' = InitRecord("IndexOutOfBounds")
     ELSE IF CopyPanics(FONT_START, font)
     THEN /\ memory' = CopyInto(CopyInto(memory, PROGRAM_START, program),
                                FONT_START, font)
          /\ pc' = PROGRAM_START
          /\ last' = InitRecord("IndexOutOfBounds")
     ELSE /\ memory' = CopyInto(CopyInto(memory, PROGRAM_START, program),
                                FONT_START, font)
          /\ pc' = PROGRAM_START
          /\ last' = InitRecord("none")
  /\ UNCHANGED << display, display_poisoned, delay_timer, sound_timer, keypad,
                  index_reg, stack, gp_registers, delay_set, locks, call >>

(***************************************************************************)
(* State::execute                                                          *)
(***************************************************************************)
\* The machine as one value, so that an instruction is a function on it.
Machine ==
  [memory |-> memory, display |-> display,
   display_poisoned |-> display_poisoned, delay_timer |-> delay_timer,
   sound_timer |-> sound_timer, pc |-> pc, index_reg |-> index_reg,
   stack |-> stack, gp_registers |-> gp_registers,
   key |-> NoKey, touched |-> {}, panic |-> "none"]

\* lines 334-335: the two fetch reads are in bounds
FetchInBounds(m) == m.pc \in Addresses /\ m.pc + 1 \in Addresses

\* line 337
FetchWord(m) ==
  BitOr(Shl16(MemRead(m.memory, m.pc), 8), MemRead(m.memory, m.pc + 1))

Skip(m, cond) == IF cond THEN [m EXCEPT !.pc = @ + 2] ELSE m

SetReg(m, x, v) == [m EXCEPT !.gp_registers[x] = v]

ExecRts(m) ==
  IF m.stack = << >> THEN [m EXCEPT !.panic = "UnwrapNone"]
  ELSE [m EXCEPT !.pc = m.stack[Len(m.stack)],
                 !.stack = SubSeq(m.stack, 1, Len(m.stack) - 1)]

\* A CALL that pushes the address of the CALL itself, not of the instruction
\* after it
ExecCall_PushesCallAddress(m, nnn) ==
  [m EXCEPT !.stack = Append(@, m.pc - 2), !.pc = nnn]

ExecCall(m, nnn) == [m EXCEPT !.stack = Append(@, m.pc), !.pc = nnn]

ExecJumpIndexed(m, nnn) == [m EXCEPT !.pc = nnn + m.gp_registers[0]]

ExecAdd(m, x, y) ==
  LET sum == m.gp_registers[x] + m.gp_registers[y]
  IN  SetReg(SetReg(m, 15, IF sum > 255 THEN 1 ELSE 0), x, AsU8(sum))

ExecSubXY(m, x, y) ==
  LET x_val == m.gp_registers[x]
      y_val == m.gp_registers[y]
  IN  IF x_val > y_val
      THEN SetReg(SetReg(m, 15, 1), x, x_val - y_val)
      ELSE SetReg(SetReg(m, 15, 0), x, 255 - (y_val - x_val))

ExecSubYX(m, x, y) ==
  LET x_val == m.gp_registers[x]
      y_val == m.gp_registers[y]
  IN  IF y_val > x_val
      THEN SetReg(SetReg(m, 15, 1), x, y_val - x_val)
      ELSE SetReg(SetReg(m, 15, 0), x, 255 - (x_val - y_val))

ExecRightShift(m, x) ==
  LET m1 == SetReg(m, 15, BitAnd(m.gp_registers[x], 1))
  IN  SetReg(m1, x, Shr(m1.gp_registers[x], 1))

ExecLeftShift(m, x) ==
  LET m1 == SetReg(m, 15, BitAnd(m.gp_registers[x], 128))
  IN  SetReg(m1, x, AsU8(m1.gp_registers[x] * 2))

\* An ADD_I that forgets the 12-bit mask
ExecAddI_NoMask(m, x) ==
  [m EXCEPT !.index_reg = m.index_reg + m.gp_registers[x]]

ExecAddI(m, x) ==
  [m EXCEPT !.index_reg = BitAnd(m.index_reg + m.gp_registers[x], 4095)]

ExecSetFontI(m, x) ==
  [m EXCEPT !.index_reg =
     (FONT_START + FONT_CHARACTER_BYTES * BitAnd(m.gp_registers[x], 15)) % 65536]

\* line 423: the display lock is taken, then the sprite slice
\* memory[I .. I + n] (a panic under the lock when it ends past the memory),
\* then DisplayBuffer::modify runs under the lock.
ExecDraw(m, x, y, n) ==
  IF m.display_poisoned THEN [m EXCEPT !.panic = "PoisonError"]
  ELSE IF m.index_reg + n > MEM_SIZE
  THEN [m EXCEPT !.panic = "SliceOutOfBounds", !.display_poisoned = TRUE]
  ELSE LET sprite == [k \in 1 .. n |-> MemRead(m.memory, m.index_reg + k - 1)]
           res == modify(m.display, sprite, n,
                         m.gp_registers[x], m.gp_registers[y])
       IN  IF res.oob
           THEN [m EXCEPT !.display = res.display, !.touched = res.touched,
                          !.panic = "IndexOutOfBounds",
                          !.display_poisoned = TRUE]
           ELSE SetReg([m EXCEPT !.display = res.display,
                                 !.touched = res.touched],
                       15, IF res.result_flag THEN 1 ELSE 0)

ExecCls(m) ==
  IF m.display_poisoned THEN [m EXCEPT !.panic = "PoisonError"]
  ELSE [m EXCEPT !.display = DisplayBuffer_clear(@)]

ExecSkipKeyEq(m, x, key) ==
  Skip([m EXCEPT !.key = key], key # NoKey /\ key = m.gp_registers[x])

ExecSkipKeyNeq(m, x, key) ==
  Skip([m EXCEPT !.key = key], key = NoKey \/ key # m.gp_registers[x])

\* A WAIT_KEY that does not rewind pc when no key is pressed
ExecWaitKey_NoRewind(m, x, key) ==
  IF key # NoKey THEN SetReg([m EXCEPT !.key = key], x, key)
  ELSE [m EXCEPT !.key = key]

\* A WAIT_KEY that stores the key and rewinds pc all the same
ExecWaitKey_AlwaysRewind(m, x, key) ==
  IF key # NoKey THEN SetReg([m EXCEPT !.key = key, !.pc = @ - 2], x, key)
  ELSE [m EXCEPT !.key = key, !.pc = @ - 2]

ExecWaitKey(m, x, key) ==
  IF key # NoKey THEN SetReg([m EXCEPT !.key = key], x, key)
  ELSE [m EXCEPT !.key = key, !.pc = @ - 2]

\* A BCD that forgets the second division
ExecBCD_OneDivision(m, x) ==
  LET x_val == m.gp_registers[x]
      mem1 == MemWrite(m.memory, BitAnd(m.index_reg + 2, 4095), x_val % 10)
      x1 == x_val \div 10
      mem2 == MemWrite(mem1, BitAnd(m.index_reg + 1, 4095), x1 % 10)
  IN  [m EXCEPT !.memory = MemWrite(mem2, m.index_reg, x1)]

ExecBCD(m, x) ==
  LET x_val == m.gp_registers[x]
      mem1 == MemWrite(m.memory, BitAnd(m.index_reg + 2, 4095), x_val % 10)
      x1 == x_val \div 10
      mem2 == MemWrite(mem1, BitAnd(m.index_reg + 1, 4095), x1 % 10)
      x2 == x1 \div 10
  IN  [m EXCEPT !.memory = MemWrite(mem2, m.index_reg, x2)]

RECURSIVE RegDumpFrom(_, _, _)
RegDumpFrom(m, x, i) ==
  IF i > x THEN m
  ELSE RegDumpFrom(
         [m EXCEPT !.memory = MemWrite(@, BitAnd(m.index_reg + i, 4095),
                                       m.gp_registers[i])],
         x, i + 1)

\* A REG_DUMP over the exclusive range 0..x
ExecRegDump_Exclusive(m, x) == RegDumpFrom(m, x - 1, 0)

\* A REG_DUMP whose writes do not reach the two bytes the next fetch reads
ExecRegDump_StaleCode(m, x) ==
  LET d == RegDumpFrom(m, x, 0)
      keep == {m.pc, m.pc + 1} \cap Addresses
  IN  [d EXCEPT !.memory =
         [a \in (DOMAIN d.memory \ keep) \cup (DOMAIN m.memory \cap keep) |->
            IF a \in keep THEN m.memory[a] ELSE d.memory[a]]]

ExecRegDump(m, x) == RegDumpFrom(m, x, 0)

RECURSIVE RegLoadFrom(_, _, _)
RegLoadFrom(m, x, i) ==
  IF i > x THEN m
  ELSE RegLoadFrom(
         SetReg(m, i, MemRead(m.memory, BitAnd(m.index_reg + i, 4095))),
         x, i + 1)

ExecRegLoad(m, x) == RegLoadFrom(m, x, 0)

ExecGetDelayTimer(m, x) == SetReg(m, x, m.delay_timer)

ExecSetDelayTimer(m, x) == [m EXCEPT !.delay_timer = m.gp_registers[x]]

\* A SET_SOUND_TIMER that sets the delay timer as well
ExecSetSoundTimer_AlsoDelay(m, x) ==
  [m EXCEPT !.sound_timer = m.gp_registers[x],
            !.delay_timer = m.gp_registers[x]]

ExecSetSoundTimer(m, x) == [m EXCEPT !.sound_timer = m.gp_registers[x]]

\* The match of execute on the decoded instruction; m has pc already
\* advanced past the instruction.  rnd is the byte the rng yields, key the
\* keypad's answer.
Dispatch(m, in, rnd, key) ==
  LET V == m.gp_registers
      x == in.x
      y == in.y
  IN  CASE in.op = "Cls" -> ExecCls(m)
        [] in.op = "Rts" -> ExecRts(m)
        [] in.op = "Jump" -> [m EXCEPT !.pc = in.nnn]
        [] in.op = "Call" -> ExecCall(m, in.nnn)
        [] in.op = "SkipEqConst" -> Skip(m, V[x] = in.nn)
        [] in.op = "SkipNeqConst" -> Skip(m, V[x] # in.nn)
        [] in.op = "SkipEq" -> Skip(m, V[x] = V[y])
        [] in.op = "MovConst" -> SetReg(m, x, in.nn)
        [] in.op = "AddConst" -> SetReg(m, x, AsU8(V[x] + in.nn))
        [] in.op = "Mov" -> SetReg(m, x, V[y])
        [] in.op = "Or" -> SetReg(m, x, BitOr(V[x], V[y]))
        [] in.op = "And" -> SetReg(m, x, BitAnd(V[x], V[y]))
        [] in.op = "Xor" -> SetReg(m, x, BitXor(V[x], V[y]))
        [] in.op = "Add" -> ExecAdd(m, x, y)
        [] in.op = "SubXY" -> ExecSubXY(m, x, y)
        [] in.op = "RightShift" -> ExecRightShift(m, x)
        [] in.op = "SubYX" -> ExecSubYX(m, x, y)
        [] in.op = "LeftShift" -> ExecLeftShift(m, x)
        [] in.op = "SkipNeq" -> Skip(m, V[x] # V[y])
        [] in.op = "MovI" -> [m EXCEPT !.index_reg = in.nnn]
        [] in.op = "JumpIndexed" -> ExecJumpIndexed(m, in.nnn)
        [] in.op = "Rand" -> SetReg(m, x, BitAnd(rnd, in.nn))
        [] in.op = "Draw" -> ExecDraw(m, x, y, in.n)
        [] in.op = "SkipKeyEq" -> ExecSkipKeyEq(m, x, key)
        [] in.op = "SkipKeyNeq" -> ExecSkipKeyNeq(m, x, key)
        [] in.op = "GetDelayTimer" -> ExecGetDelayTimer(m, x)
        [] in.op = "WaitKey" -> ExecWaitKey(m, x, key)
        [] in.op = "SetDelayTimer" -> ExecSetDelayTimer(m, x)
        [] in.op = "SetSoundTimer" -> ExecSetSoundTimer(m, x)
        [] in.op = "AddI" -> ExecAddI(m, x)
        [] in.op = "SetFontI" -> ExecSetFontI(m, x)
        [] in.op = "BCD" -> ExecBCD(m, x)
        [] in.op = "RegDump" -> ExecRegDump(m, x)
        [] in.op = "RegLoad" -> ExecRegLoad(m, x)
        [] OTHER -> [m EXCEPT !.panic = "NotYetImplemented"]

\* The instruction the next execute() fetches (Invalid stands in when the
\* fetch itself is out of bounds and nothing is decoded).
Fetched == IF FetchInBounds(Machine) THEN decode(FetchWord(Machine)) ELSE Invalid

\* One call of execute() that fetched `in`: pc += 2, dispatch.
Executed(in, rnd) ==
  IF ~FetchInBounds(Machine) THEN [Machine EXCEPT !.panic = "IndexOutOfBounds"]
  ELSE Dispatch([Machine EXCEPT !.pc = @ + 2], in, rnd, keypad)

\* The bytes the platform rng may yield
RandBytes == {0, 1, 5, 10, 128, 255}

Execute ==
  /\ steps < MaxSteps
  /\ \E in \in {Fetched} :
     \E rnd \in (IF in.op = "Rand" THEN RandBytes ELSE {0}) :
     \E m \in {Executed(in, rnd)} :
           /\ memory' = m.memory
           /\ display' = m.display
           /\ display_poisoned' = m.display_poisoned
           /\ delay_timer' = m.delay_timer
           /\ sound_timer' = m.sound_timer
           /\ pc' = m.pc
           /\ index_reg' = m.index_reg
           /\ stack' = m.stack
           /\ gp_registers' = m.gp_registers
           /\ last' = CallRecord(in, pc, gp_registers, index_reg, stack,
                                 display, m.key, m.touched, m.panic)
           /\ dumped' =
                IF in.op = "RegDump" /\ m.panic = "none"
                THEN [live |-> TRUE, x |-> in.x, I |-> index_reg,
                      V |-> gp_registers]
                ELSE IF m.memory # memory THEN NoDump
                ELSE dumped
           /\ counted' =
                IF in.op = "Call" THEN [counted EXCEPT !.calls = @ + 1]
                ELSE IF in.op = "Rts" THEN [counted EXCEPT !.rts = @ + 1]
                ELSE counted
           /\ delay_set' =
                IF in.op = "SetDelayTimer"
                THEN [live |-> TRUE, value |-> gp_registers[in.x]]
                ELSE delay_set
           /\ steps' = IF in.op = "WaitKey" /\ m.key = NoKey THEN steps
                        ELSE steps + 1
  /\ prev' = last
  /\ UNCHANGED << keypad, inits, locks, call >>

(***************************************************************************)
(* The host: it owns the keypad and ticks the delay timer                  *)
(***************************************************************************)
HostSetKey(k) ==
  /\ keypad # k
  /\ keypad' = k
  /\ UNCHANGED << memory, display, display_poisoned, delay_timer, sound_timer,
                  pc, index_reg, stack, gp_registers, steps, inits, dumped,
                  counted, delay_set, locks, call, prev, last >>

HostTick ==
  /\ delay_timer > 0
  /\ delay_timer' = delay_timer - 1
  /\ delay_set' = [delay_set EXCEPT !.live = FALSE]
  /\ UNCHANGED << memory, display, display_poisoned, sound_timer, keypad,
                  pc, index_reg, stack, gp_registers, steps, inits, dumped,
                  counted, locks, call, prev, last >>

(***************************************************************************)
(* Programs the host loads                                                 *)
(***************************************************************************)
\* The opcode word with nibbles a b c d
Op(a, b, c, d) == a * 4096 + b * 256 + c * 16 + d

\* A program of opcode words as the raw big-endian bytes initialize() gets
ProgramBytes(words) ==
  [k \in 1 .. 2 * Len(words) |->
     IF k % 2 = 1 THEN words[(k + 1) \div 2] \div 256 ELSE words[k \div 2] % 256]

\* A program of the maximum size (4096 - 0x200 bytes): `head` at 0x200, zero
\* bytes, and the word `tail` in the last two bytes of memory (0xFFE, 0xFFF)
FullProgram(head, tail) ==
  LET size == MEM_SIZE - PROGRAM_START
      h == ProgramBytes(head)
  IN  [k \in 1 .. size |->
         IF k <= Len(h) THEN h[k]
         ELSE IF k = size - 1 THEN tail \div 256
         ELSE IF k = size THEN tail % 256
         ELSE 0]

\* Sets the delay timer and the beeper from a random bit and reads it back
TimerProgram ==
  ProgramBytes(<< Op(12, 0, 0, 1), Op(15, 0, 1, 5), Op(15, 0, 1, 8),
                  Op(15, 1, 0, 7) >>)

\* Control flow and index register programs
CorePrograms ==
  { TimerProgram,
    \* V0 <- rnd; JUMP_INDEXED 0xFFF
    ProgramBytes(<< Op(12, 0, 15, 15), Op(11, 15, 15, 15) >>),
    \* JUMP 0xFFE, where a skip that holds (V0 = 0) lies
    FullProgram(<< Op(1, 15, 15, 14) >>, Op(3, 0, 0, 0)),
    \* JUMP 0xFFE, where MOV_CONST lies
    FullProgram(<< Op(1, 15, 15, 14) >>, Op(6, 1, 0, 7)),
    \* JUMP 0xFFE, where CALL 0x204 lies; RTS at 0x204
    FullProgram(<< Op(1, 15, 15, 14), 0, Op(0, 0, 14, 14) >>, Op(2, 2, 0, 4)),
    \* CALL 0x206; RTS at 0x206
    ProgramBytes(<< Op(2, 2, 0, 6), Op(1, 2, 0, 2), 0, Op(0, 0, 14, 14) >>),
    \* CALL 0x204; CALL 0x208 from there; two RTS
    ProgramBytes(<< Op(2, 2, 0, 4), Op(1, 2, 0, 2), Op(2, 2, 0, 8),
                    Op(0, 0, 14, 14), Op(0, 0, 14, 14) >>),
    \* RTS on the empty stack
    ProgramBytes(<< Op(0, 0, 14, 14) >>),
    \* I <- 0xFFF; V0 <- rnd; ADD_I V0; SET_FONT_I V0; BCD V0
    ProgramBytes(<< Op(10, 15, 15, 15), Op(12, 0, 15, 15), Op(15, 0, 1, 14),
                    Op(15, 0, 2, 9), Op(15, 0, 3, 3) >>),
    \* I <- 0xFFE; V0 <- rnd; BCD V0; ADD_I V0
    ProgramBytes(<< Op(10, 15, 15, 14), Op(12, 0, 15, 15), Op(15, 0, 3, 3),
                    Op(15, 0, 1, 14) >>),
    \* skips: V1 <- rnd & 1; 3100; 4101; 5120; 9120; JUMP 0x200
    ProgramBytes(<< Op(12, 1, 0, 1), Op(3, 1, 0, 0), Op(4, 1, 0, 1),
                    Op(5, 1, 2, 0), Op(9, 1, 2, 0), Op(1, 2, 0, 0) >>)
  }

\* The keys the host presses in the runs that are not about the keypad
CoreKeys == {NoKey, 7}

(***************************************************************************)
(* The machine under a host that loads one of the core programs            *)
(***************************************************************************)
Next ==
  \/ inits = 0 /\ \E p \in CorePrograms : Initialize(p, DEFAULT_FONT)
  \/ Execute
  \/ \E k \in CoreKeys : HostSetKey(k)
  \/ HostTick

Spec == Init /\ [][Next]_vars

\* The last call was execute(), it fetched `op` and returned without a panic
Ran(c, op) == c.op = op /\ c.panic = "none"

(***************************************************************************)
(* C1: in every state reachable from initialize by execute steps, PC is in *)
(* [0, 4096): also after JUMP_INDEXED, after a skip or a plain advance at  *)
(* the top of memory, and after CALL/RTS.                                  *)
(***************************************************************************)
C1_PCInRange == pc \in 0 .. (MEM_SIZE - 1)

(***************************************************************************)
(* C2: the index register I is in [0, 4096) in every reachable state:      *)
(* MOV_I sets it to NNN, ADD_I to (I + VX) mod 4096, SET_FONT_I to         *)
(* FONT_START + 5 * (VX mod 16), and BCD leaves it as it was.              *)
(***************************************************************************)
C2_IndexInRange ==
  /\ index_reg \in 0 .. (MEM_SIZE - 1)
  /\ Ran(last, "MovI") => index_reg = last.nnn
  /\ Ran(last, "AddI") => index_reg = (last.I + last.V[last.x]) % MEM_SIZE
  /\ Ran(last, "SetFontI") =>
       index_reg = FONT_START + FONT_CHARACTER_BYTES * (last.V[last.x] % 16)
  /\ Ran(last, "BCD") => index_reg = last.I

\* ADD_I ran on an I and a VX whose sum passes the top of memory
C2_Witness == Ran(last, "AddI") /\ last.I + last.V[last.x] >= MEM_SIZE

(***************************************************************************)
(* C4: a CALL NNN fetched at address A pushes A + 2 and jumps to NNN; an   *)
(* RTS pops the newest entry into PC (last in, first out); so a CALL       *)
(* immediately followed by an RTS leaves PC = A + 2 and the stack as it    *)
(* was before the CALL.                                                    *)
(***************************************************************************)
C4_CallRts ==
  /\ Ran(last, "Call") =>
       /\ stack = Append(last.stack, last.at + 2)
       /\ pc = last.nnn
  /\ Ran(last, "Rts") =>
       /\ pc = last.stack[Len(last.stack)]
       /\ stack = SubSeq(last.stack, 1, Len(last.stack) - 1)
  /\ (Ran(prev, "Call") /\ Ran(last, "Rts")) =>
       /\ pc = prev.at + 2
       /\ stack = prev.stack

\* A nested CALL (the stack was not empty) was immediately followed by RTS
C4_Witness == Ran(prev, "Call") /\ Ran(last, "Rts") /\ prev.stack # << >>

(***************************************************************************)
(* The machine under a host that loads one of the arithmetic programs      *)
(***************************************************************************)
\* VX <- rnd; VY <- rnd; then the 8XYk opcode
AluProgram(x, y, k) ==
  ProgramBytes(<< Op(12, x, 15, 15), Op(12, y, 15, 15), Op(8, x, y, k) >>)

\* The register pairs (X, Y) of the arithmetic programs
AluPairs == { <<0, 1>>, <<1, 1>>, <<15, 0>>, <<0, 15>> }

\* ADD, SUB_XY, RIGHT_SHIFT, SUB_YX, LEFT_SHIFT
AluOps == {4, 5, 6, 7, 14}

AluPrograms ==
  { AluProgram(xy[1], xy[2], k) : xy \in AluPairs, k \in AluOps }
  \cup
  { TimerProgram,
    \* V0 <- rnd; I <- glyph "0"; DRAW V0, V0, 5 twice
    ProgramBytes(<< Op(12, 0, 15, 15), Op(10, 0, 5, 0), Op(13, 0, 0, 5),
                    Op(13, 0, 0, 5) >>) }

NextAlu ==
  \/ inits = 0 /\ \E p \in AluPrograms : Initialize(p, DEFAULT_FONT)
  \/ Execute
  \/ \E k \in CoreKeys : HostSetKey(k)
  \/ HostTick

SpecAlu == Init /\ [][NextAlu]_vars

VF == gp_registers[15]

(***************************************************************************)
(* C3: after a step that executes ADD, SUB_XY, SUB_YX, RIGHT_SHIFT or      *)
(* DRAW, for every X and Y (X = 0xF included), VF is 0 or 1; after         *)
(* LEFT_SHIFT, VF is the raw high bit VX & 0x80 of the old VX.             *)
(***************************************************************************)
C3_FlagIsBit ==
  /\ (\E op \in {"Add", "SubXY", "SubYX", "RightShift", "Draw"} : Ran(last, op))
       => VF \in {0, 1}
  /\ Ran(last, "LeftShift") => VF = (last.V[last.x] \div 128) * 128

(***************************************************************************)
(* C7: after SUB_XY: if VX > VY then VF = 1 and VX_new = VX - VY, else     *)
(* VF = 0 and VX_new = (256 - (VY - VX)) mod 256; VF holds the flag also   *)
(* when X = 0xF.                                                           *)
(***************************************************************************)
C7_SubXY ==
  Ran(last, "SubXY") =>
    LET VX == last.V[last.x]
        VY == last.V[last.y]
    IN  /\ VF = IF VX > VY THEN 1 ELSE 0
        /\ last.x # 15 =>
             gp_registers[last.x] =
               IF VX > VY THEN VX - VY ELSE (256 - (VY - VX)) % 256

(***************************************************************************)
(* C8: after SUB_YX: if VY > VX then VF = 1 and VX_new = VY - VX, else     *)
(* VF = 0 and VX_new = (256 - (VX - VY)) mod 256; VF holds the flag also   *)
(* when X = 0xF.                                                           *)
(***************************************************************************)
C8_SubYX ==
  Ran(last, "SubYX") =>
    LET VX == last.V[last.x]
        VY == last.V[last.y]
    IN  /\ VF = IF VY > VX THEN 1 ELSE 0
        /\ last.x # 15 =>
             gp_registers[last.x] =
               IF VY > VX THEN VY - VX ELSE (256 - (VX - VY)) % 256

(***************************************************************************)
(* C9: after ADD: VX_new = (VX + VY) mod 256 and VF = 1 if VX + VY > 0xFF  *)
(* else 0; for X = 0xF the register VF holds the carry flag, not the sum.  *)
(***************************************************************************)
C9_Add ==
  Ran(last, "Add") =>
    LET sum == last.V[last.x] + last.V[last.y]
    IN  /\ VF = IF sum > 255 THEN 1 ELSE 0
        /\ last.x # 15 => gp_registers[last.x] = sum % 256

(***************************************************************************)
(* The machine under a host that loads one of the register dump programs   *)
(***************************************************************************)
MemPrograms ==
  { TimerProgram,
    \* I <- 0xFFF; V0 <- rnd; V1 <- rnd; REG_DUMP 1; V0 <- rnd; REG_LOAD 1
    ProgramBytes(<< Op(10, 15, 15, 15), Op(12, 0, 15, 15), Op(12, 1, 15, 15),
                    Op(15, 1, 5, 5), Op(12, 0, 15, 15), Op(15, 1, 6, 5) >>),
    \* I <- 0xFFE; V0 <- rnd; V2 <- rnd; REG_DUMP 2; REG_LOAD 2
    ProgramBytes(<< Op(10, 15, 15, 14), Op(12, 0, 15, 15), Op(12, 2, 15, 15),
                    Op(15, 2, 5, 5), Op(15, 2, 6, 5) >>),
    \* I <- 0xFF8; V7 <- rnd; VF <- rnd; REG_DUMP F; V7 <- rnd; REG_LOAD F
    ProgramBytes(<< Op(10, 15, 15, 8), Op(12, 7, 15, 15), Op(12, 15, 15, 15),
                    Op(15, 15, 5, 5), Op(12, 7, 15, 15), Op(15, 15, 6, 5) >>),
    \* I <- 0x300; V0 <- rnd; REG_DUMP 0; V0 <- rnd; REG_LOAD 0
    ProgramBytes(<< Op(10, 3, 0, 0), Op(12, 0, 15, 15), Op(15, 0, 5, 5),
                    Op(12, 0, 15, 15), Op(15, 0, 6, 5) >>),
    \* I <- 0x300; V1 <- rnd; REG_DUMP 1; BCD V1 over the dump; REG_LOAD 1
    ProgramBytes(<< Op(10, 3, 0, 0), Op(12, 1, 15, 15), Op(15, 1, 5, 5),
                    Op(15, 1, 3, 3), Op(15, 1, 6, 5) >>),
    \* I <- 0xFFF; V3 <- rnd; BCD V3; BCD V0
    ProgramBytes(<< Op(10, 15, 15, 15), Op(12, 3, 15, 15), Op(15, 3, 3, 3),
                    Op(15, 0, 3, 3) >>),
    \* I <- 0xFFE; VF <- rnd; BCD VF
    ProgramBytes(<< Op(10, 15, 15, 14), Op(12, 15, 15, 15), Op(15, 15, 3, 3) >>),
    \* I <- 0x200; V0 <- rnd; BCD V0 over the program itself
    ProgramBytes(<< Op(10, 2, 0, 0), Op(12, 0, 15, 15), Op(15, 0, 3, 3) >>)
  }

NextMem ==
  \/ inits = 0 /\ \E p \in MemPrograms : Initialize(p, DEFAULT_FONT)
  \/ Execute
  \/ \E k \in CoreKeys : HostSetKey(k)
  \/ HostTick

SpecMem == Init /\ [][NextMem]_vars

(***************************************************************************)
(* C5: REG_DUMP(X) followed by REG_LOAD(X) with the same I leaves V0..VX   *)
(* as they were at the dump, immediately and also when the registers were  *)
(* changed in between (the dumped bytes still being in memory); neither    *)
(* instruction changes I; after the dump memory[(I + i) mod 4096] = Vi for *)
(* i in 0..X, also where I + i wraps past 0xFFF.                           *)
(***************************************************************************)
C5_DumpLoad ==
  /\ Ran(last, "RegDump") =>
       /\ index_reg = last.I
       /\ gp_registers = last.V
       /\ \A i \in 0 .. last.x :
            MemRead(memory, (last.I + i) % MEM_SIZE) = last.V[i]
  /\ Ran(last, "RegLoad") => index_reg = last.I
  /\ (Ran(prev, "RegDump") /\ Ran(last, "RegLoad") /\ prev.x = last.x) =>
       /\ last.I = prev.I
       /\ \A i \in 0 .. last.x : gp_registers[i] = prev.V[i]
  /\ (Ran(last, "RegLoad") /\ dumped.live /\ dumped.x = last.x
        /\ dumped.I = last.I) =>
       \A i \in 0 .. last.x : gp_registers[i] = dumped.V[i]

\* A REG_LOAD restored registers that were changed after the dump, from
\* addresses that wrap past the top of memory
C5_Witness ==
  /\ Ran(last, "RegLoad") /\ dumped.live /\ dumped.x = last.x
  /\ dumped.I = last.I
  /\ last.I + last.x >= MEM_SIZE
  /\ \E i \in 0 .. last.x : last.V[i] # dumped.V[i]
  /\ \A i \in 0 .. last.x : gp_registers[i] = dumped.V[i]

(***************************************************************************)
(* The machine under a host that loads one of the drawing programs         *)
(***************************************************************************)
DrawPrograms ==
  { TimerProgram,
    \* V0 <- rnd; V1 <- rnd; I <- glyph "0"; DRAW V0, V1, 5 three times
    ProgramBytes(<< Op(12, 0, 15, 15), Op(12, 1, 15, 15), Op(10, 0, 5, 0),
                    Op(13, 0, 1, 5), Op(13, 0, 1, 5), Op(13, 0, 1, 5) >>),
    \* V0 <- rnd; V1 <- rnd; I <- glyph "1"; DRAW V0, V1, 15 twice
    ProgramBytes(<< Op(12, 0, 15, 15), Op(12, 1, 15, 15), Op(10, 0, 5, 5),
                    Op(13, 0, 1, 15), Op(13, 0, 1, 15) >>),
    \* I <- glyph "0"; DRAW V0, V0, 5; I <- glyph "1"; DRAW V0, V0, 5
    ProgramBytes(<< Op(10, 0, 5, 0), Op(13, 0, 0, 5), Op(10, 0, 5, 5),
                    Op(13, 0, 0, 5) >>),
    \* I <- glyph "0"; DRAW V0, V0, 0 (no rows); DRAW V0, V0, 1 twice; CLS
    ProgramBytes(<< Op(10, 0, 5, 0), Op(13, 0, 0, 0), Op(13, 0, 0, 1),
                    Op(13, 0, 0, 1), Op(0, 0, 14, 0) >>),
    \* VF <- rnd; I <- glyph "0"; DRAW VF, VF, 5 twice
    ProgramBytes(<< Op(12, 15, 15, 15), Op(10, 0, 5, 0), Op(13, 15, 15, 5),
                    Op(13, 15, 15, 5) >>),
    \* V0 <- 62; V1 <- 30; I <- glyph "0"; DRAW V0, V1, 5 twice
    ProgramBytes(<< Op(6, 0, 3, 14), Op(6, 1, 1, 14), Op(10, 0, 5, 0),
                    Op(13, 0, 1, 5), Op(13, 0, 1, 5) >>),
    \* I <- 0xFFE; DRAW V0, V0, 5 (the sprite ends past the memory); CLS
    ProgramBytes(<< Op(10, 15, 15, 14), Op(13, 0, 0, 5), Op(0, 0, 14, 0) >>)
  }

NextDraw ==
  \/ inits = 0 /\ \E p \in DrawPrograms : Initialize(p, DEFAULT_FONT)
  \/ Execute
  \/ \E k \in CoreKeys : HostSetKey(k)
  \/ HostTick

SpecDraw == Init /\ [][NextDraw]_vars

\* The start coordinates of the DRAW call c, wrapped
StartX(c) == c.V[c.x] % DISPLAY_WIDTH
StartY(c) == c.V[c.y] % DISPLAY_HEIGHT

(***************************************************************************)
(* C6: the framebuffer has exactly 64 * 32 cells (no lit cell lies outside *)
(* them), and for every start coordinate and sprite height a DRAW uses     *)
(* only cell indexes in [0, 2048), each at a column sx + c < 64 and a row  *)
(* sy + r < 32 with c in 0..7 and r in 0..n-1.                             *)
(***************************************************************************)
C6_DrawInBounds ==
  /\ display \subseteq DisplayCells
  /\ last.op = "Draw" =>
       /\ last.panic # "IndexOutOfBounds"
       /\ last.touched \subseteq DisplayCells
       /\ \A idx \in last.touched :
            LET col == idx % DISPLAY_WIDTH
                row == idx \div DISPLAY_WIDTH
            IN  /\ col \in StartX(last) .. (StartX(last) + 7)
                /\ row \in StartY(last) .. (StartY(last) + last.n - 1)

\* A DRAW ran whose sprite passes both the right and the bottom edge
C6_Witness ==
  /\ Ran(last, "Draw")
  /\ StartX(last) + 7 >= DISPLAY_WIDTH
  /\ StartY(last) + last.n - 1 >= DISPLAY_HEIGHT
  /\ last.touched # {}

\* Bit `col` (0 the leftmost) of a sprite byte
SpriteBit(byte, col) == (byte \div Pow2(7 - col)) % 2

\* The cells that the set bits of the sprite of the DRAW call c fall on,
\* inside the framebuffer
SpriteOnes(c, mem) ==
  { StartX(c) + rc[2] + DISPLAY_WIDTH * (StartY(c) + rc[1]) :
      rc \in { q \in (0 .. (c.n - 1)) \X (0 .. 7) :
                 /\ StartX(c) + q[2] < DISPLAY_WIDTH
                 /\ StartY(c) + q[1] < DISPLAY_HEIGHT
                 /\ SpriteBit(MemRead(mem, c.I + q[1]), q[2]) = 1 } }

SameDraw(c, d) ==
  /\ c.I = d.I /\ c.n = d.n
  /\ c.V[c.x] = d.V[d.x] /\ c.V[c.y] = d.V[d.y]

Changed == (display \ last.lit) \cup (last.lit \ display)

(***************************************************************************)
(* C11: DRAW wraps only the start coordinates (sx = VX mod 64,             *)
(* sy = VY mod 32) and clips the rest: every changed cell lies at a column *)
(* sx + c <= 63 and a row sy + r <= 31 with c in 0..7 and r in 0..N-1      *)
(* (none on the opposite edge, none outside the rectangle), the cells of   *)
(* the set sprite bits inside the framebuffer are the ones changed, and at *)
(* x = 62, y = 30 only columns 0-1 of rows 0-1 of the sprite are drawn.    *)
(***************************************************************************)
C11_DrawClips ==
  Ran(last, "Draw") =>
    /\ \A idx \in Changed :
         LET c == (idx % DISPLAY_WIDTH) - StartX(last)
             r == (idx \div DISPLAY_WIDTH) - StartY(last)
         IN  /\ c \in 0 .. 7
             /\ r \in 0 .. (last.n - 1)
             /\ SpriteBit(MemRead(memory, last.I + r), c) = 1
    /\ \A r \in 0 .. (last.n - 1), c \in 0 .. 7 :
         (/\ SpriteBit(MemRead(memory, last.I + r), c) = 1
          /\ StartX(last) + c < DISPLAY_WIDTH
          /\ StartY(last) + r < DISPLAY_HEIGHT)
           => (StartX(last) + c + DISPLAY_WIDTH * (StartY(last) + r)) \in Changed
    /\ (last.V[last.x] = 62 /\ last.V[last.y] = 30 /\ last.I = FONT_START
          /\ last.n = 5)
         => Changed = {62 + 64 * 30, 63 + 64 * 30, 62 + 64 * 31}

\* Glyph "0" was drawn at x = 62, y = 30 on a blank framebuffer: only its
\* columns 0-1 of rows 0-1 are lit
C11_Witness ==
  /\ Ran(last, "Draw")
  /\ last.V[last.x] = 62 /\ last.V[last.y] = 30
  /\ last.I = FONT_START /\ last.n = 5
  /\ last.lit = {}
  /\ display = {62 + 64 * 30, 63 + 64 * 30, 62 + 64 * 31}

(***************************************************************************)
(* The machine under a host that loads one of the keypad programs and      *)
(* presses and releases keys                                               *)
(***************************************************************************)
KeyPrograms ==
  { TimerProgram,
    \* WAIT_KEY V0; V1 <- 5
    ProgramBytes(<< Op(15, 0, 0, 10), Op(6, 1, 0, 5) >>),
    \* V1 <- rnd; I <- 0x300; REG_DUMP 1; WAIT_KEY V1; WAIT_KEY VF
    ProgramBytes(<< Op(12, 1, 15, 15), Op(10, 3, 0, 0), Op(15, 1, 5, 5),
                    Op(15, 1, 0, 10), Op(15, 15, 0, 10) >>),
    \* V0 <- 0x17; SKIP_KEY_EQ V0; SKIP_KEY_NEQ V0; SKIP_KEY_NEQ V0
    ProgramBytes(<< Op(6, 0, 1, 7), Op(14, 0, 9, 14), Op(14, 0, 10, 1),
                    Op(14, 0, 10, 1) >>),
    \* V0 <- 0x17; SKIP_KEY_NEQ V0; SKIP_KEY_EQ V0; SKIP_KEY_EQ V0
    ProgramBytes(<< Op(6, 0, 1, 7), Op(14, 0, 10, 1), Op(14, 0, 9, 14),
                    Op(14, 0, 9, 14) >>),
    \* V2 <- rnd; SKIP_KEY_EQ V2; SKIP_KEY_NEQ V2; SKIP_KEY_NEQ V2
    ProgramBytes(<< Op(12, 2, 15, 15), Op(14, 2, 9, 14), Op(14, 2, 10, 1),
                    Op(14, 2, 10, 1) >>),
    \* V2 <- rnd; SKIP_KEY_NEQ V2; SKIP_KEY_EQ V2; SKIP_KEY_EQ V2
    ProgramBytes(<< Op(12, 2, 15, 15), Op(14, 2, 10, 1), Op(14, 2, 9, 14),
                    Op(14, 2, 9, 14) >>)
  }

\* The keys the host presses in the keypad runs
KeypadKeys == {NoKey, 0, 7, 15}

NextKey ==
  \/ inits = 0 /\ \E p \in KeyPrograms : Initialize(p, DEFAULT_FONT)
  \/ Execute
  \/ \E k \in KeypadKeys : HostSetKey(k)
  \/ HostTick

SpecKey == Init /\ [][NextKey]_vars

(***************************************************************************)
(* C12: a step that executes WAIT_KEY while the keypad reports no key      *)
(* leaves the machine state unchanged (PC back at the WAIT_KEY, registers, *)
(* I, memory, stack, timers, framebuffer untouched), so the machine stays  *)
(* at that instruction as long as no key is pressed; a step that sees key  *)
(* k sets VX = k and leaves PC at the next instruction.                    *)
(***************************************************************************)
C12_WaitKey ==
  [][(Execute /\ Fetched.op = "WaitKey") =>
       IF keypad = NoKey
       THEN UNCHANGED << memory, display, display_poisoned, delay_timer,
                         sound_timer, pc, index_reg, stack, gp_registers >>
       ELSE /\ gp_registers' = [gp_registers EXCEPT ![Fetched.x] = keypad]
            /\ pc' = pc + 2
            /\ UNCHANGED << memory, display, display_poisoned, delay_timer,
                            sound_timer, index_reg, stack >>]_vars

\* Two WAIT_KEY polls in a row found no key and the machine is still at the
\* WAIT_KEY, with registers, I and stack as before the first poll
C12_Witness ==
  /\ Ran(prev, "WaitKey") /\ prev.key = NoKey
  /\ Ran(last, "WaitKey") /\ last.key = NoKey
  /\ pc = prev.at /\ Fetched.op = "WaitKey"
  /\ gp_registers = prev.V /\ index_reg = prev.I /\ stack = prev.stack
  /\ memory # ZeroMemory /\ \E r \in Registers : gp_registers[r] # 0

(***************************************************************************)
(* The keypad runs under a fair host: it keeps calling execute(), and a    *)
(* key that is pressed again and again is pressed at some call             *)
(***************************************************************************)
KeyedSample == Execute /\ keypad # NoKey

SpecKeyLive ==
  Init /\ [][NextKey]_vars /\ WF_vars(Execute) /\ SF_vars(KeyedSample)

\* The machine is at a WAIT_KEY and the host may call execute()
Waiting == Fetched.op = "WaitKey" /\ steps < MaxSteps

\* The last call was a WAIT_KEY that took the key and went on
TookKey ==
  /\ Ran(last, "WaitKey") /\ last.key # NoKey
  /\ gp_registers[last.x] = last.key
  /\ pc = last.at + 2

(***************************************************************************)
(* C13: an execute() call at a WAIT_KEY returns after one keypad sample    *)
(* (it reports the sample it took and does not panic), and when the host   *)
(* keeps stepping and a key is pressed again and again, a machine at a     *)
(* WAIT_KEY eventually goes on past it with VX equal to the sampled key.   *)
(***************************************************************************)
C13_WaitKeyLive ==
  /\ [][(Execute /\ Fetched.op = "WaitKey") =>
          last' = CallRecord(Fetched, pc, gp_registers, index_reg, stack,
                             display, keypad, {}, "none")]_vars
  /\ ([]<>(keypad # NoKey)) => (Waiting ~> TookKey)

\* A WAIT_KEY poll found no key, the next one took key 7 into VX and the
\* machine is past the WAIT_KEY
C13_Witness ==
  /\ Ran(prev, "WaitKey") /\ prev.key = NoKey
  /\ last.at = prev.at
  /\ TookKey /\ last.key = 7

(***************************************************************************)
(* C14: the key-skip opcodes compare the pressed key with the low nibble   *)
(* of VX: SKIP_KEY_EQ skips (PC += 2 extra) iff a key is pressed and it    *)
(* equals VX & 0xF, SKIP_KEY_NEQ skips iff no key is pressed or the        *)
(* pressed key differs from VX & 0xF; with VX = 0x17 and key 7 pressed,    *)
(* EX9E skips and EXA1 does not.                                           *)
(***************************************************************************)
C14_KeySkip ==
  LET low == BitAnd(last.V[last.x], 15)
  IN  /\ Ran(last, "SkipKeyEq") =>
           pc = IF last.key # NoKey /\ last.key = low
                THEN last.at + 4 ELSE last.at + 2
      /\ Ran(last, "SkipKeyNeq") =>
           pc = IF last.key = NoKey \/ last.key # low
                THEN last.at + 4 ELSE last.at + 2

(***************************************************************************)
(* Instruction::decode applied to the words a host can put at 0x200: every *)
(* value of the nibbles that decide the tag, with some values of the       *)
(* others                                                                  *)
(***************************************************************************)
\* Values of a nibble that does not decide the tag
FieldNibbles == {0, 9, 15}

DecodeWords ==
  \* 0NNN, EXNN, FXNN: every low byte
  { Op(a, b, 0, 0) + nn : a \in {0, 14, 15}, b \in {0, 1, 15}, nn \in 0 .. 255 }
  \cup
  \* 5XYN, 8XYN, 9XYN, DXYN: every low nibble
  { Op(a, b, c, d) : a \in {5, 8, 9, 13}, b \in FieldNibbles,
                     c \in FieldNibbles, d \in 0 .. 15 }
  \cup
  \* the opcodes that the first nibble decides
  { Op(a, b, c, d) : a \in {1, 2, 3, 4, 6, 7, 10, 11, 12}, b \in FieldNibbles,
                     c \in FieldNibbles, d \in FieldNibbles }

DecodePrograms == {TimerProgram} \cup {ProgramBytes(<< w >>) : w \in DecodeWords}

NextDecode ==
  \/ inits = 0 /\ \E p \in DecodePrograms : Initialize(p, DEFAULT_FONT)
  \/ Execute
  \/ \E k \in CoreKeys : HostSetKey(k)
  \/ HostTick

SpecDecode == Init /\ [][NextDecode]_vars

\* The opcode table: the tag and the fields of the word w
TableTag(w) ==
  LET a == w \div 4096
      n == w % 16
      nn == w % 256
  IN  CASE w = 224 -> "Cls"
        [] w = 238 -> "Rts"
        [] a = 1 -> "Jump"
        [] a = 2 -> "Call"
        [] a = 3 -> "SkipEqConst"
        [] a = 4 -> "SkipNeqConst"
        [] a = 5 /\ n = 0 -> "SkipEq"
        [] a = 6 -> "MovConst"
        [] a = 7 -> "AddConst"
        [] a = 8 /\ n = 0 -> "Mov"
        [] a = 8 /\ n = 1 -> "Or"
        [] a = 8 /\ n = 2 -> "And"
        [] a = 8 /\ n = 3 -> "Xor"
        [] a = 8 /\ n = 4 -> "Add"
        [] a = 8 /\ n = 5 -> "SubXY"
        [] a = 8 /\ n = 6 -> "RightShift"
        [] a = 8 /\ n = 7 -> "SubYX"
        [] a = 8 /\ n = 14 -> "LeftShift"
        [] a = 9 /\ n = 0 -> "SkipNeq"
        [] a = 10 -> "MovI"
        [] a = 11 -> "JumpIndexed"
        [] a = 12 -> "Rand"
        [] a = 13 -> "Draw"
        [] a = 14 /\ nn = 158 -> "SkipKeyEq"
        [] a = 14 /\ nn = 161 -> "SkipKeyNeq"
        [] a = 15 /\ nn = 7 -> "GetDelayTimer"
        [] a = 15 /\ nn = 10 -> "WaitKey"
        [] a = 15 /\ nn = 21 -> "SetDelayTimer"
        [] a = 15 /\ nn = 24 -> "SetSoundTimer"
        [] a = 15 /\ nn = 30 -> "AddI"
        [] a = 15 /\ nn = 41 -> "SetFontI"
        [] a = 15 /\ nn = 51 -> "BCD"
        [] a = 15 /\ nn = 85 -> "RegDump"
        [] a = 15 /\ nn = 101 -> "RegLoad"
        [] OTHER -> "Invalid"

TagsNNN == {"Jump", "Call", "MovI", "JumpIndexed"}
TagsXNN == {"SkipEqConst", "SkipNeqConst", "MovConst", "AddConst", "Rand"}
TagsXY == {"SkipEq", "SkipNeq", "Mov", "Or", "And", "Xor", "Add", "SubXY",
           "RightShift", "SubYX", "LeftShift"}
TagsX == {"SkipKeyEq", "SkipKeyNeq", "GetDelayTimer", "WaitKey",
          "SetDelayTimer", "SetSoundTimer", "AddI", "SetFontI", "BCD",
          "RegDump", "RegLoad"}

TableDecode(w) ==
  LET tag == TableTag(w)
      X == (w \div 256) % 16
      Y == (w \div 16) % 16
  IN  IF tag \in TagsNNN THEN Instr(tag, 0, 0, 0, 0, w % 4096)
      ELSE IF tag \in TagsXNN THEN Instr(tag, X, 0, 0, w % 256, 0)
      ELSE IF tag \in TagsXY THEN Instr(tag, X, Y, 0, 0, 0)
      ELSE IF tag = "Draw" THEN Instr(tag, X, Y, w % 16, 0, 0)
      ELSE IF tag \in TagsX THEN Instr(tag, X, 0, 0, 0, 0)
      ELSE Instr(tag, 0, 0, 0, 0, 0)

\* The word at `at` in memory
WordAt(at) == 256 * MemRead(memory, at) + MemRead(memory, at + 1)

(***************************************************************************)
(* C15: decode maps every word to the tag and the fields of the opcode     *)
(* table (X = 2nd nibble, Y = 3rd, N = 4th, NN = low byte, NNN = low 12    *)
(* bits) and every other word to Invalid; stated of the word the next      *)
(* execute() fetches, in every state.                                      *)
(***************************************************************************)
C15_Decode ==
  FetchInBounds(Machine) =>
    /\ FetchWord(Machine) = WordAt(pc)
    /\ decode(WordAt(pc)) = TableDecode(WordAt(pc))

\* execute() has decoded 8XYF, a word of the arithmetic family that the table
\* does not have, as Invalid; the next word is in the table
C15_Witness ==
  /\ last.op = "Invalid" /\ last.panic = "NotYetImplemented"
  /\ last.at = PROGRAM_START
  /\ WordAt(last.at) = Op(8, 9, 0, 15)
  /\ FetchInBounds(Machine) /\ decode(WordAt(pc)) = Invalid

(***************************************************************************)
(* The machine under a host that loads one of the failing programs and     *)
(* goes on calling execute() after a panic                                 *)
(***************************************************************************)
ErrPrograms ==
  { TimerProgram,
    \* an invalid word; V0 <- 5; V1 <- rnd
    ProgramBytes(<< 0, Op(6, 0, 0, 5), Op(12, 1, 15, 15) >>),
    \* RTS on the empty stack; CALL 0x204; RTS at 0x204
    ProgramBytes(<< Op(0, 0, 14, 14), Op(2, 2, 0, 4), Op(0, 0, 14, 14) >>),
    \* CALL 0x206; RTS; RTS on the empty stack; RTS at 0x206
    ProgramBytes(<< Op(2, 2, 0, 6), Op(0, 0, 14, 14), Op(0, 0, 14, 14),
                    Op(0, 0, 14, 14) >>),
    \* JUMP 0xFFF, where the fetch reads past the memory
    ProgramBytes(<< Op(1, 15, 15, 15) >>),
    \* I <- 0xFFE; DRAW V0, V0, 5 (the sprite ends past the memory); V0 <- 5
    ProgramBytes(<< Op(10, 15, 15, 14), Op(13, 0, 0, 5), Op(6, 0, 0, 5) >>)
  }

NextErr ==
  \/ inits = 0 /\ \E p \in ErrPrograms : Initialize(p, DEFAULT_FONT)
  \/ Execute
  \/ \E k \in CoreKeys : HostSetKey(k)
  \/ HostTick

SpecErr == Init /\ [][NextErr]_vars

\* The call c was an execute() that ended in one of the fatal errors:
\* invalid instruction, RTS on the empty stack, fetch or data access past
\* the memory
Failed(c) ==
  /\ c.op \notin {"New", "Initialize"}
  /\ c.panic \in {"NotYetImplemented", "UnwrapNone", "IndexOutOfBounds",
                  "SliceOutOfBounds"}

(***************************************************************************)
(* C16: once a step has failed with a fatal error, every later step is     *)
(* refused until initialize: it changes no part of the machine state and   *)
(* reports the error again.                                                *)
(***************************************************************************)
C16_ErrorSticky ==
  [][(Execute /\ Failed(last)) =>
       /\ UNCHANGED << memory, display, display_poisoned, delay_timer,
                       sound_timer, pc, index_reg, stack, gp_registers >>
       /\ last'.panic = last.panic]_vars

(***************************************************************************)
(* C17: a step that executes RTS on the empty call stack ends in the fatal *)
(* stack-underflow error, the stack stays empty and PC is not set to a     *)
(* popped value; this happens exactly when the number of RTS executed so   *)
(* far exceeds the number of CALLs.                                        *)
(***************************************************************************)
C17_RtsUnderflow ==
  last.op = "Rts" =>
    /\ last.panic = "UnwrapNone" <=> last.stack = << >>
    /\ last.panic = "UnwrapNone" => stack = << >> /\ pc = last.at + 2
    /\ last.panic = "UnwrapNone" <=> counted.rts > counted.calls

(***************************************************************************)
(* The machine under a host that calls initialize() again, on a State that *)
(* has run a program                                                       *)
(***************************************************************************)
ResetPrograms ==
  { TimerProgram,
    \* V0 <- rnd; CALL 0x206; at 0x206: I <- 0x300; REG_DUMP 0
    ProgramBytes(<< Op(12, 0, 15, 15), Op(2, 2, 0, 6), 0, Op(10, 3, 0, 0),
                    Op(15, 0, 5, 5) >>),
    \* V1 <- 1
    ProgramBytes(<< Op(6, 1, 0, 1) >>)
  }

NextReset ==
  \/ inits < MaxInits /\ \E p \in ResetPrograms : Initialize(p, DEFAULT_FONT)
  \/ Execute
  \/ \E k \in CoreKeys : HostSetKey(k)
  \/ HostTick

SpecReset == Init /\ [][NextReset]_vars

\* The memory that holds the font, the program and zeroes everywhere else
FreshImage(program, font) ==
  CopyInto(CopyInto(ZeroMemory, PROGRAM_START, program), FONT_START, font)

(***************************************************************************)
(* C18: initialize(program, font) is a full reset: called on any state,    *)
(* also one reached by steps of a previous program, it leaves PC = 0x200,  *)
(* V0..VF = 0, the call stack empty, the font at 0x050, the program at     *)
(* 0x200 and every other memory byte 0.                                    *)
(***************************************************************************)
C18_InitializeResets ==
  Ran(last, "Initialize") =>
    /\ pc = PROGRAM_START
    /\ gp_registers = [r \in Registers |-> 0]
    /\ stack = << >>
    /\ \E p \in ResetPrograms : memory = FreshImage(p, DEFAULT_FONT)

\* The sprite cells of the DRAW call c when row r is read from
\* memory[(I + r) & 0xFFF]
SpriteOnesWrapped(c, mem) ==
  { StartX(c) + rc[2] + DISPLAY_WIDTH * (StartY(c) + rc[1]) :
      rc \in { q \in (0 .. (c.n - 1)) \X (0 .. 7) :
                 /\ StartX(c) + q[2] < DISPLAY_WIDTH
                 /\ StartY(c) + q[1] < DISPLAY_HEIGHT
                 /\ SpriteBit(MemRead(mem, (c.I + q[1]) % MEM_SIZE), q[2]) = 1 } }

(***************************************************************************)
(* C19: every data address is masked to 12 bits, so no DRAW, BCD, REG_DUMP *)
(* or REG_LOAD step fails for any I in [0, 4096): DRAW with I + N > 4096   *)
(* reads sprite row r from memory[(I + r) & 0xFFF], and BCD with I = 0xFFE *)
(* or 0xFFF writes its tens and ones at the wrapped addresses.             *)
(***************************************************************************)
C19_DataAddressesMasked ==
  /\ (last.op \in {"Draw", "BCD", "RegDump", "RegLoad"}
        /\ last.I \in Addresses)
       => last.panic = "none"
  /\ Ran(last, "Draw") =>
       Changed = SpriteOnesWrapped(last, memory)
  /\ Ran(last, "BCD") =>
       /\ MemRead(memory, (last.I + 1) % MEM_SIZE) = (last.V[last.x] \div 10) % 10
       /\ MemRead(memory, (last.I + 2) % MEM_SIZE) = last.V[last.x] % 10

(***************************************************************************)
(* C20: after BCD with VX = v, memory[I & 0xFFF] = v div 100,              *)
(* memory[(I+1) & 0xFFF] = (v div 10) mod 10, memory[(I+2) & 0xFFF] =      *)
(* v mod 10, so 100*m0 + 10*m1 + m2 = v with each digit in 0..9; no other  *)
(* memory byte, no register and not I changes.                             *)
(***************************************************************************)
C20_BCD ==
  [][(Execute /\ Fetched.op = "BCD") =>
       LET v == gp_registers[Fetched.x]
           a0 == index_reg % MEM_SIZE
           a1 == (index_reg + 1) % MEM_SIZE
           a2 == (index_reg + 2) % MEM_SIZE
           m0 == MemRead(memory', a0)
           m1 == MemRead(memory', a1)
           m2 == MemRead(memory', a2)
       IN  /\ m0 = v \div 100
           /\ m1 = (v \div 10) % 10
           /\ m2 = v % 10
           /\ 100 * m0 + 10 * m1 + m2 = v
           /\ {m0, m1, m2} \subseteq 0 .. 9
           /\ \A a \in (DOMAIN memory \cup DOMAIN memory') \ {a0, a1, a2} :
                MemRead(memory', a) = MemRead(memory, a)
           /\ UNCHANGED << gp_registers, index_reg, stack, display >>]_vars

\* BCD of 255 with I = 0xFFF: the hundreds are at 0xFFF, the tens and ones
\* at the wrapped addresses 0 and 1
C20_Witness ==
  /\ Ran(last, "BCD")
  /\ last.V[last.x] = 255 /\ last.I = MEM_SIZE - 1
  /\ MemRead(memory, MEM_SIZE - 1) = 2
  /\ MemRead(memory, 0) = 5 /\ MemRead(memory, 1) = 5

(***************************************************************************)
(* C21: in every reachable state every entry of the call stack is a 12-bit *)
(* return address (in [0, 4096)), the entry pushed by a CALL fetched at    *)
(* 0xFFE included; the stack grows and shrinks at its end only, and a CALL *)
(* whose fetch was in bounds never fails, however deep the stack is.       *)
(***************************************************************************)
C21_StackEntries ==
  /\ \A i \in 1 .. Len(stack) : stack[i] \in 0 .. (MEM_SIZE - 1)
  /\ last.op = "Call" =>
       /\ last.panic = "none"
       /\ Len(stack) = Len(last.stack) + 1
       /\ SubSeq(stack, 1, Len(last.stack)) = last.stack
  /\ Ran(last, "Rts") => stack = SubSeq(last.stack, 1, Len(last.stack) - 1)

(***************************************************************************)
(* The machine under a host that loads one of the timer programs and ticks *)
(* the delay timer at any time                                             *)
(***************************************************************************)
TimerPrograms ==
  { TimerProgram,
    \* V0 <- rnd & 0x0B; delay <- V0; V1 <- delay; beeper <- V0; V2 <- delay
    ProgramBytes(<< Op(12, 0, 0, 11), Op(15, 0, 1, 5), Op(15, 1, 0, 7),
                    Op(15, 0, 1, 8), Op(15, 2, 0, 7) >>),
    \* V0 <- rnd & 0x0B; beeper <- V0; V1 <- 5; delay <- V1; V2 <- delay;
    \* delay <- V0
    ProgramBytes(<< Op(12, 0, 0, 11), Op(15, 0, 1, 8), Op(6, 1, 0, 5),
                    Op(15, 1, 1, 5), Op(15, 2, 0, 7), Op(15, 0, 1, 5) >>)
  }

NextTimer ==
  \/ inits = 0 /\ \E p \in TimerPrograms : Initialize(p, DEFAULT_FONT)
  \/ Execute
  \/ \E k \in CoreKeys : HostSetKey(k)
  \/ HostTick

SpecTimer == Init /\ [][NextTimer]_vars

(***************************************************************************)
(* C22: the core never ticks the timers.  In a call of execute() the delay *)
(* timer changes only when the call executes SET_DELAY_TIMER, which sets   *)
(* it to VX, and the beeper's value changes only when the call executes    *)
(* SET_SOUND_TIMER, which starts it with VX; a GET_DELAY_TIMER with no     *)
(* host tick since the last SET_DELAY_TIMER puts exactly the value that    *)
(* SET_DELAY_TIMER set into VX and changes no other register.              *)
(***************************************************************************)
C22_CoreNeverTicks ==
  [][Execute =>
       /\ delay_timer' # delay_timer => Fetched.op = "SetDelayTimer"
       /\ Fetched.op = "SetDelayTimer" => delay_timer' = gp_registers[Fetched.x]
       /\ sound_timer' # sound_timer => Fetched.op = "SetSoundTimer"
       /\ Fetched.op = "SetSoundTimer" => sound_timer' = gp_registers[Fetched.x]
       /\ (Fetched.op = "GetDelayTimer" /\ delay_set.live) =>
            gp_registers' =
              [gp_registers EXCEPT ![Fetched.x] = delay_set.value]]_vars

\* GET_DELAY_TIMER read back the 5 that SET_DELAY_TIMER had set, the beeper
\* running with another value
C22_Witness ==
  /\ Ran(last, "GetDelayTimer")
  /\ delay_set.live
  /\ delay_set.value = 5
  /\ gp_registers[last.x] = 5
  /\ sound_timer = 10

(***************************************************************************)
(* execute() beside a host thread.  A branch of execute() that uses a      *)
(* capability locks its Mutex for one statement: it waits for the Mutex,   *)
(* holds it while the capability's method runs, releases it at the end of  *)
(* the statement and then finishes on its own state.  The host thread      *)
(* holds one capability Mutex at a time while it presses or releases a     *)
(* key, ticks the delay timer or clears the display.                       *)
(***************************************************************************)
\* The Mutex the branch of execute() for `in` locks ("none" where it locks
\* no Mutex)
LockOf(in) ==
  CASE in.op \in {"Cls", "Draw"} -> "display"
    [] in.op \in {"SkipKeyEq", "SkipKeyNeq", "WaitKey"} -> "keypad"
    [] in.op \in {"GetDelayTimer", "SetDelayTimer"} -> "delay_timer"
    [] in.op = "SetSoundTimer" -> "sound_timer"
    [] OTHER -> "none"

\* A call of execute() whose branch locks no Mutex
CoreLocal ==
  /\ call.phase = "idle"
  /\ LockOf(Fetched) = "none"
  /\ Execute

\* fetch, pc += 2 and decode of a call whose branch locks a Mutex
CoreBegin ==
  /\ call.phase = "idle"
  /\ steps < MaxSteps
  /\ LockOf(Fetched) # "none"
  /\ pc' = pc + 2
  /\ call' = [Idle EXCEPT !.phase = "wait", !.in = Fetched,
                          !.cap = LockOf(Fetched), !.at = pc]
  /\ UNCHANGED << memory, display, display_poisoned, delay_timer, sound_timer,
                  keypad, index_reg, stack, gp_registers, steps, inits,
                  dumped, counted, delay_set, locks, prev, last >>

\* Mutex::lock: the call waits until the Mutex is free and takes it
CoreAcquire ==
  /\ call.phase = "wait"
  /\ locks[call.cap] = "free"
  /\ locks' = [locks EXCEPT ![call.cap] = "core"]
  /\ call' = [call EXCEPT !.phase = "locked"]
  /\ UNCHANGED << memory, display, display_poisoned, delay_timer, sound_timer,
                  keypad, pc, index_reg, stack, gp_registers, steps, inits,
                  dumped, counted, delay_set, prev, last >>

\* A call that keeps the Mutex after the statement that locked it
CoreOperate_KeepsLock ==
  /\ call.phase = "locked"
  /\ \E m \in {Dispatch(Machine, call.in, 0, keypad)} :
       /\ display' = m.display
       /\ display_poisoned' = m.display_poisoned
       /\ delay_timer' = m.delay_timer
       /\ sound_timer' = m.sound_timer
       /\ call' = [call EXCEPT
                     !.phase = "released",
                     !.samples = @ + (IF call.cap = "keypad" THEN 1 ELSE 0),
                     !.key = m.key, !.pc = m.pc, !.V = m.gp_registers,
                     !.lit = display, !.touched = m.touched,
                     !.panic = m.panic]
       /\ delay_set' =
            IF call.in.op = "SetDelayTimer"
            THEN [live |-> TRUE, value |-> gp_registers[call.in.x]]
            ELSE delay_set
  /\ locks' = locks
  /\ UNCHANGED << memory, keypad, pc, index_reg, stack, gp_registers, steps,
                  inits, dumped, counted, prev, last >>

\* The capability's method runs under the lock with what the capability
\* holds at that moment; the guard is a temporary of the statement, so the
\* Mutex is released at its end (also when the statement panics).  What the
\* call then does to pc and the registers is kept in `call`.
CoreOperate ==
  /\ call.phase = "locked"
  /\ \E m \in {Dispatch(Machine, call.in, 0, keypad)} :
       /\ display' = m.display
       /\ display_poisoned' = m.display_poisoned
       /\ delay_timer' = m.delay_timer
       /\ sound_timer' = m.sound_timer
       /\ call' = [call EXCEPT
                     !.phase = "released",
                     !.samples = @ + (IF call.cap = "keypad" THEN 1 ELSE 0),
                     !.key = m.key, !.pc = m.pc, !.V = m.gp_registers,
                     !.lit = display, !.touched = m.touched,
                     !.panic = m.panic]
       /\ delay_set' =
            IF call.in.op = "SetDelayTimer"
            THEN [live |-> TRUE, value |-> gp_registers[call.in.x]]
            ELSE delay_set
  /\ locks' = [locks EXCEPT ![call.cap] = "free"]
  /\ UNCHANGED << memory, keypad, pc, index_reg, stack, gp_registers, steps,
                  inits, dumped, counted, prev, last >>

\* The rest of the branch, on the State alone, and the return
CoreFinish ==
  /\ call.phase = "released"
  /\ pc' = call.pc
  /\ gp_registers' = call.V
  /\ last' = CallRecord(call.in, call.at, gp_registers, index_reg, stack,
                        call.lit, call.key, call.touched, call.panic)
  /\ prev' = last
  /\ steps' = IF call.in.op = "WaitKey" /\ call.key = NoKey THEN steps
               ELSE steps + 1
  /\ call' = Idle
  /\ UNCHANGED << memory, display, display_poisoned, delay_timer, sound_timer,
                  keypad, index_reg, stack, inits, dumped, counted, delay_set,
                  locks >>

\* The host thread takes a capability Mutex, holding no other
HostAcquire(c) ==
  /\ \A d \in Capabilities : locks[d] # "host"
  /\ locks[c] = "free"
  /\ locks' = [locks EXCEPT ![c] = "host"]
  /\ UNCHANGED << memory, display, display_poisoned, delay_timer, sound_timer,
                  keypad, pc, index_reg, stack, gp_registers, steps, inits,
                  dumped, counted, delay_set, call, prev, last >>

HostRelease ==
  /\ \E c \in Capabilities : locks[c] = "host"
  /\ locks' = [c \in Capabilities |->
                 IF locks[c] = "host" THEN "free" ELSE locks[c]]
  /\ UNCHANGED << memory, display, display_poisoned, delay_timer, sound_timer,
                  keypad, pc, index_reg, stack, gp_registers, steps, inits,
                  dumped, counted, delay_set, call, prev, last >>

HostLockedSetKey(k) == locks["keypad"] = "host" /\ HostSetKey(k)

HostLockedTick == locks["delay_timer"] = "host" /\ HostTick

\* The host calls Display::clear on a display with lit cells
HostLockedClear ==
  /\ locks["display"] = "host"
  /\ display # DisplayBuffer_new
  /\ display' = DisplayBuffer_clear(display)
  /\ UNCHANGED << memory, display_poisoned, delay_timer, sound_timer, keypad,
                  pc, index_reg, stack, gp_registers, steps, inits, dumped,
                  counted, delay_set, locks, call, prev, last >>

ConcPrograms ==
  { \* V0 <- 7; beeper <- V0; SKIP_KEY_EQ V0; WAIT_KEY V1; SKIP_KEY_NEQ V0
    ProgramBytes(<< Op(6, 0, 0, 7), Op(15, 0, 1, 8), Op(14, 0, 9, 14),
                    Op(15, 1, 0, 10), Op(14, 0, 10, 1) >>),
    \* V0 <- 5; delay <- V0; V1 <- delay; I <- 0x50; DRAW V0, V0, 5; CLS
    ProgramBytes(<< Op(6, 0, 0, 5), Op(15, 0, 1, 5), Op(15, 1, 0, 7),
                    Op(10, 0, 5, 0), Op(13, 0, 0, 5), Op(0, 0, 14, 0) >>)
  }

NextConc ==
  \/ inits = 0 /\ \E p \in ConcPrograms : Initialize(p, DEFAULT_FONT)
  \/ CoreLocal
  \/ CoreBegin
  \/ CoreAcquire
  \/ CoreOperate
  \/ CoreFinish
  \/ \E c \in {"display", "delay_timer", "keypad"} : HostAcquire(c)
  \/ HostRelease
  \/ \E k \in KeypadKeys : HostLockedSetKey(k)
  \/ HostLockedTick
  \/ HostLockedClear

SpecConc == Init /\ [][NextConc]_vars

\* The call in flight can take its next step (the method under the lock
\* always returns or panics), or it waits for a Mutex that the host thread
\* holds and can release
CanProceed ==
  \/ ENABLED CoreAcquire
  \/ call.phase = "locked"
  \/ ENABLED CoreFinish
  \/ locks[call.cap] = "host" /\ ENABLED HostRelease

(***************************************************************************)
(* C23: beside a host thread that changes the keypad, the delay timer or   *)
(* the display, a call of execute() holds at most one capability Mutex at  *)
(* a time, holds none while it waits for one, and samples the keypad at    *)
(* most once; a call in flight is never stuck (it can step, or the host    *)
(* holds the Mutex it waits for and can release it); and what SKIP_KEY_EQ, *)
(* SKIP_KEY_NEQ and WAIT_KEY do to pc and the registers is what they do    *)
(* for the one key value sampled: WAIT_KEY either stores that key in VX    *)
(* with pc past the instruction, or leaves the registers and puts pc back  *)
(* on the instruction.                                                     *)
(***************************************************************************)
C23_OneLockOneSample ==
  /\ [](/\ Cardinality({c \in Capabilities : locks[c] = "core"}) <= 1
        /\ call.phase = "wait" => \A c \in Capabilities : locks[c] # "core"
        /\ call.samples <= 1
        /\ call.phase # "idle" => CanProceed)
  /\ [][(CoreFinish /\ call.cap = "keypad") =>
          /\ call.samples = 1
          /\ \E m \in {Dispatch([Machine EXCEPT !.pc = call.at + 2],
                                call.in, 0, call.key)} :
               pc' = m.pc /\ gp_registers' = m.gp_registers
          /\ call.in.op = "WaitKey" =>
               \/ /\ call.key # NoKey
                  /\ gp_registers' =
                       [gp_registers EXCEPT ![call.in.x] = call.key]
                  /\ pc' = call.at + 2
               \/ /\ call.key = NoKey
                  /\ gp_registers' = gp_registers
                  /\ pc' = call.at]_vars

\* WAIT_KEY stored the key 7 it had sampled although the host has changed
\* the keypad since, and the next call waits for the keypad Mutex, which the
\* host thread holds
C23_Witness ==
  /\ Ran(last, "WaitKey")
  /\ last.key = 7
  /\ gp_registers[last.x] = 7
  /\ keypad # 7
  /\ call.phase = "wait"
  /\ locks[call.cap] = "host"

(***************************************************************************)
(* The machine under a host that loads a program that writes into its own  *)
(* code (none of these programs starts the delay timer, so there is        *)
(* nothing to tick)                                                        *)
(***************************************************************************)
SelfPrograms ==
  { \* I <- 0x208; V0 <- 0x6A; V1 <- 7; REG_DUMP V1 (at 0x206); at 0x208 lies
    \* 6B01, which the dump turns into 6A07
    ProgramBytes(<< Op(10, 2, 0, 8), Op(6, 0, 6, 10), Op(6, 1, 0, 7),
                    Op(15, 1, 5, 5), Op(6, 11, 0, 1) >>),
    \* I <- 0x207; V0 <- rnd; REG_DUMP V0 (at 0x204); at 0x206 lies 6105,
    \* whose low byte the dump replaces
    ProgramBytes(<< Op(10, 2, 0, 7), Op(12, 0, 15, 15), Op(15, 0, 5, 5),
                    Op(6, 1, 0, 5), Op(6, 2, 0, 9) >>),
    \* I <- 0x207; V0 <- rnd; BCD V0 (at 0x204); at 0x206 lies 6105, whose
    \* low byte becomes the hundreds digit; tens and units make up 0x208
    ProgramBytes(<< Op(10, 2, 0, 7), Op(12, 0, 15, 15), Op(15, 0, 3, 3),
                    Op(6, 1, 0, 5), Op(6, 2, 0, 9) >>),
    \* I <- 0x204; V0 <- rnd; BCD V0 (at 0x204); at 0x206, where the units
    \* digit goes, lies 60E0: a units digit 0 turns it into 00E0
    ProgramBytes(<< Op(10, 2, 0, 4), Op(12, 0, 15, 15), Op(15, 0, 3, 3),
                    Op(6, 0, 14, 0), Op(6, 2, 0, 9) >>),
    \* I <- 0x300; V0 <- rnd; REG_DUMP V0: the dump is away from the code
    ProgramBytes(<< Op(10, 3, 0, 0), Op(12, 0, 15, 15), Op(15, 0, 5, 5),
                    Op(6, 1, 0, 5) >>)
  }

NextSelf ==
  \/ inits = 0 /\ \E p \in SelfPrograms : Initialize(p, DEFAULT_FONT)
  \/ Execute
  \/ \E k \in CoreKeys : HostSetKey(k)

SpecSelf == Init /\ [][NextSelf]_vars

\* The bytes a REG_DUMP or BCD call wrote, by address, taken from the
\* registers and I the call started with
Written(c) ==
  IF c.op = "RegDump"
  THEN [a \in {BitAnd(c.I + i, 4095) : i \in 0 .. c.x} |->
          c.V[CHOOSE i \in 0 .. c.x : BitAnd(c.I + i, 4095) = a]]
  ELSE [a \in {c.I, BitAnd(c.I + 1, 4095), BitAnd(c.I + 2, 4095)} |->
          IF a = BitAnd(c.I + 2, 4095) THEN c.V[c.x] % 10
          ELSE IF a = BitAnd(c.I + 1, 4095) THEN (c.V[c.x] \div 10) % 10
          ELSE c.V[c.x] \div 100]

\* The byte at address a after the call c: what c wrote there, else what the
\* memory holds
ByteAfter(c, a) ==
  IF a \in DOMAIN Written(c) THEN Written(c)[a] ELSE MemRead(memory, a)

(***************************************************************************)
(* C24: when a REG_DUMP or a BCD has written at an address the next fetch  *)
(* reads (pc or pc + 1 after that step), the next step fetches the bytes   *)
(* the REG_DUMP or BCD wrote, decodes the word they make up and executes   *)
(* that instruction, not the one that lay there before.                    *)
(***************************************************************************)
C24_SelfModifying ==
  [][(/\ Execute
      /\ Ran(last, "RegDump") \/ Ran(last, "BCD")
      /\ {pc, pc + 1} \cap DOMAIN Written(last) # {}
      /\ FetchInBounds(Machine)) =>
       \E in \in {decode(ByteAfter(last, pc) * 256 + ByteAfter(last, pc + 1))} :
       \E rnd \in RandBytes :
       \E m \in {Dispatch([Machine EXCEPT !.pc = pc + 2], in, rnd, keypad)} :
         /\ last' = CallRecord(in, pc, gp_registers, index_reg, stack,
                               display, m.key, m.touched, m.panic)
         /\ pc' = m.pc
         /\ gp_registers' = m.gp_registers
         /\ memory' = m.memory
         /\ index_reg' = m.index_reg
         /\ stack' = m.stack
         /\ display' = m.display]_vars

\* The REG_DUMP at 0x206 wrote 6A 07 over the 6B01 at 0x208, and the next
\* step ran MOV_CONST VA, 7
C24_Witness ==
  /\ Ran(prev, "RegDump")
  /\ DOMAIN Written(prev) = {520, 521}
  /\ Ran(last, "MovConst")
  /\ last.at = 520
  /\ last.x = 10
  /\ gp_registers[10] = 7
  /\ gp_registers[11] = 0

\* The skip opcodes 3XNN, 4XNN, 5XY0, 9XY0, EX9E, EXA1
SkipOps ==
  {"SkipEqConst", "SkipNeqConst", "SkipEq", "SkipNeq", "SkipKeyEq",
   "SkipKeyNeq"}

\* The predicate of the skip opcode `in` on registers V with the key `key`
\* pressed; the key opcodes look at the low nibble of VX
SkipHolds(in, V, key) ==
  CASE in.op = "SkipEqConst" -> V[in.x] = in.nn
    [] in.op = "SkipNeqConst" -> V[in.x] # in.nn
    [] in.op = "SkipEq" -> V[in.x] = V[in.y]
    [] in.op = "SkipNeq" -> V[in.x] # V[in.y]
    [] in.op = "SkipKeyEq" -> key # NoKey /\ key = BitAnd(V[in.x], 15)
    [] in.op = "SkipKeyNeq" -> key = NoKey \/ key # BitAnd(V[in.x], 15)
    [] OTHER -> FALSE

(***************************************************************************)
(* C25: one step consumes exactly one instruction.  After a call of        *)
(* execute() that fetched at p and did not fail, PC is the target for      *)
(* JUMP, CALL (NNN) and JUMP_INDEXED (NNN + V0), the popped address for    *)
(* RTS, p + 4 for a skip opcode whose predicate holds, p for a WAIT_KEY    *)
(* with no key pressed, and p + 2 in every other case; a skip opcode       *)
(* changes nothing but PC.                                                 *)
(***************************************************************************)
C25_OneInstruction ==
  [][(Execute /\ last'.panic = "none") =>
       LET in == Fetched
       IN  /\ pc' =
                CASE in.op \in {"Jump", "Call"} -> in.nnn
                  [] in.op = "JumpIndexed" -> in.nnn + gp_registers[0]
                  [] in.op = "Rts" -> stack[Len(stack)]
                  [] in.op \in SkipOps ->
                       IF SkipHolds(in, gp_registers, keypad) THEN pc + 4
                       ELSE pc + 2
                  [] in.op = "WaitKey" ->
                       IF keypad = NoKey THEN pc ELSE pc + 2
                  [] OTHER -> pc + 2
           /\ in.op \in SkipOps =>
                UNCHANGED << memory, display, display_poisoned, delay_timer,
                             sound_timer, index_reg, stack, gp_registers >>]_vars

====
